---- MODULE Spec2Model ----
(***************************************************************************)
(* Model of the question-bank bot (src/bot.py): the Drive storage adapter  *)
(* (GoogleDriveManager), the code parser (SoruBankasiBot.parse_code), the  *)
(* photo/code conversation and the /list, /pdf and /cancel commands.       *)
(*                                                                         *)
(* Strings are sequences of characters; a user name, a time of day and     *)
(* the ".png" extension are single opaque characters.  A Python Optional   *)
(* is a sequence of length 0 (None) or 1.  A handler is split at its       *)
(* `await`s: the code between two awaits runs as one step, because the     *)
(* Drive client calls are plain synchronous calls.                         *)
(***************************************************************************)
EXTENDS Integers, Sequences, FiniteSets, TLC

VARIABLES
    drive,        \* the backend: [folders, files] below the root folder
    user_states,  \* SoruBankasiBot.user_states: user id -> Pending Submission
    conv,         \* ConversationHandler's state of each user's conversation
    pc,           \* where each user's running handler is suspended
    cur,          \* the update each user's running handler is handling
    res           \* what the running handler has computed so far

vars == <<drive, user_states, conv, pc, cur, res>>

-----------------------------------------------------------------------------
(* Bounds *)

MaxFiles == 2          \* uploads are accepted while the drive holds fewer files
MaxArgs == 2           \* longest argument list of /list and /pdf
MaxStored == 4         \* most files on the drive when retrieval starts
MaxSeqFiles == 3       \* as MaxFiles, when no backend call fails
MaxPath == 4           \* longest path passed to create_folder_structure alone
MaxSegments == 5       \* most segments of a code passed to parse_code alone
MaxSubjects == 3       \* most subjects of a taxonomy that menu renders
MaxPhotoFiles == 2     \* as MaxFiles, when users send different photos

-----------------------------------------------------------------------------
(* Python values *)

None == <<>>
Some(v) == <<v>>
IsNone(o) == o = <<>>
Val(o) == o[1]

\* the one element of a singleton
Only(S) == CHOOSE x \in S : TRUE

WAITING_FOR_CODE == 1
END == -1

-----------------------------------------------------------------------------
(* str operations *)

RECURSIVE Join(_, _)
Join(parts, sep) ==
    IF parts = <<>> THEN <<>>
    ELSE IF Len(parts) = 1 THEN parts[1]
    ELSE parts[1] \o sep \o Join(Tail(parts), sep)

\* index of the first occurrence of character c in s, 0 when absent
RECURSIVE Find(_, _, _)
Find(s, c, i) ==
    IF i > Len(s) THEN 0
    ELSE IF s[i] = c THEN i
    ELSE Find(s, c, i + 1)

\* index of the last occurrence of character c in s, 0 when absent
RECURSIVE RFind(_, _, _)
RFind(s, c, i) ==
    IF i < 1 THEN 0
    ELSE IF s[i] = c THEN i
    ELSE RFind(s, c, i - 1)

\* s.split(c, n)
RECURSIVE SplitN(_, _, _)
SplitN(s, c, n) ==
    LET i == Find(s, c, 1)
    IN IF i = 0 \/ n = 0 THEN <<s>>
       ELSE <<SubSeq(s, 1, i - 1)>> \o SplitN(SubSeq(s, i + 1, Len(s)), c, n - 1)

\* Split that stops after the third part
SplitAtMostTwice(s, c) == SplitN(s, c, 2)

\* s.split(c)
RECURSIVE Split(_, _)
Split(s, c) ==
    LET i == Find(s, c, 1)
    IN IF i = 0 THEN <<s>>
       ELSE <<SubSeq(s, 1, i - 1)>> \o Split(SubSeq(s, i + 1, Len(s)), c)

\* s.rsplit(c, 1)
RSplit1(s, c) ==
    LET i == RFind(s, c, Len(s))
    IN IF i = 0 THEN <<s>>
       ELSE <<SubSeq(s, 1, i - 1), SubSeq(s, i + 1, Len(s))>>

\* s.strip()
RECURSIVE Strip(_)
Strip(s) ==
    IF s = <<>> THEN s
    ELSE IF Head(s) = " " THEN Strip(Tail(s))
    ELSE IF s[Len(s)] = " " THEN Strip(SubSeq(s, 1, Len(s) - 1))
    ELSE s

\* sub in s
Contains(s, sub) ==
    \E i \in 0..(Len(s) - Len(sub)) : SubSeq(s, i + 1, i + Len(sub)) = sub

Digit(d) == <<"0", "1", "2", "3", "4", "5", "6", "7", "8", "9">>[d + 1]

\* str(n) for n >= 0, as f"{new_number}" renders it
RECURSIVE IntStr(_)
IntStr(n) ==
    IF n < 10 THEN <<Digit(n)>>
    ELSE IntStr(n \div 10) \o <<Digit(n % 10)>>

-----------------------------------------------------------------------------
(* The taxonomy, config.json: one subject, one exam, a topic with one      *)
(* subtopic and a topic without the alt_konular key.                       *)

CONFIG ==
    [dersler |->
        (<<"1">> :>
            [ad |-> "Mat",
             sinavlar |->
                (<<"1">> :>
                    [ad |-> "AYT",
                     konular |->
                        (<<"1">> :> [ad |-> "Turev",
                                     alt_konular |-> (<<"1">> :> "Zincir")]
                         @@
                         <<"2">> :> [ad |-> "Limit"])])])]

\* AltKonular that asks for a key no topic has
AltKonularOfNoKey(konu) == <<>>

\* konu.get('alt_konular', {})
AltKonular(konu) ==
    IF "alt_konular" \in DOMAIN konu THEN konu.alt_konular ELSE <<>>

\* SoruBankasiBot.parse_code: None, or the parsed code
parse_code(code) ==
    LET parts == Split(code, ".")
    IN IF Len(parts) < 3 THEN None
       ELSE
       LET ders_id == parts[1]
           sinav_id == parts[2]
           konu_id == parts[3]
           alt_konu_id == IF Len(parts) > 3 THEN Some(parts[4]) ELSE None
       IN IF ders_id \notin DOMAIN CONFIG.dersler THEN None
          ELSE
          LET ders == CONFIG.dersler[ders_id]
          IN IF sinav_id \notin DOMAIN ders.sinavlar THEN None
             ELSE
             LET sinav == ders.sinavlar[sinav_id]
             IN IF konu_id \notin DOMAIN sinav.konular THEN None
                ELSE
                LET konu == sinav.konular[konu_id]
                    hasAlt == /\ ~IsNone(alt_konu_id)
                              /\ Val(alt_konu_id) # <<>>
                              /\ Val(alt_konu_id) \in DOMAIN AltKonular(konu)
                    alt_konu == IF hasAlt
                                THEN Some(AltKonular(konu)[Val(alt_konu_id)])
                                ELSE None
                IN Some([ders |-> ders.ad,
                         sinav |-> sinav.ad,
                         konu |-> konu.ad,
                         alt_konu |-> alt_konu,
                         code |-> code,
                         folder_path |->
                            IF hasAlt
                            THEN <<ders.ad, sinav.ad, konu.ad, Val(alt_konu)>>
                            ELSE <<ders.ad, sinav.ad, konu.ad>>])

-----------------------------------------------------------------------------
(* Inputs *)

Users == {"u1", "u2"}
Photos == {"p1"}

\* user.username or user.first_name
username_of(u) == IF u = "u1" THEN "alice" ELSE "bob"

\* datetime.now().strftime("%H-%M")
Times == {"12-00"}

Code(segs) == Join(segs, <<".">>)

CodeTurev == Code(<< <<"1">>, <<"1">>, <<"1">> >>)
CodeZincir == Code(<< <<"1">>, <<"1">>, <<"1">>, <<"1">> >>)
CodeBad == Code(<< <<"9">>, <<"9">>, <<"9">> >>)

\* texts a user types while a code is awaited
Texts == {CodeTurev, <<" ">> \o CodeZincir, CodeBad}

-----------------------------------------------------------------------------
(* GoogleDriveManager.  A drive is [folders, files]; a folder is           *)
(* [id, name, parent], an image file [id, name, parent, bytes].  Nothing   *)
(* is ever deleted, so the number of objects of a kind names the next one. *)
(* A backend call either succeeds or raises HttpError, as the caller's     *)
(* fault plan says.                                                        *)

root_folder_id == 0

EmptyDrive == [folders |-> {}, files |-> {}]

NewFolderId(d) == Cardinality(d.folders) + 1
NewFileId(d) == Cardinality(d.files) + 1

\* response['files'][0] of a folder query: the listing's first entry
FirstFolder(found) == CHOOSE f \in found : \A g \in found : f.id <= g.id

\* GoogleDriveManager.create_folder_structure.  calls counts the backend
\* calls made so far; call number failAt raises HttpError, which nothing
\* here catches.
RECURSIVE create_folder_structure_loop(_, _, _, _, _)
create_folder_structure_loop(d, parent_id, path_parts, calls, failAt) ==
    IF path_parts = <<>>
    THEN [drive |-> d, value |-> parent_id, raised |-> FALSE]
    ELSE
    LET folder_name == Head(path_parts)
        found == {f \in d.folders :
                    f.name = folder_name /\ f.parent = parent_id}
    IN IF failAt = calls + 1
       THEN [drive |-> d, value |-> parent_id, raised |-> TRUE]
       ELSE IF found # {}
       THEN create_folder_structure_loop(d, FirstFolder(found).id,
                                         Tail(path_parts), calls + 1, failAt)
       ELSE IF failAt = calls + 2
       THEN [drive |-> d, value |-> parent_id, raised |-> TRUE]
       ELSE
       LET folder == [id |-> NewFolderId(d), name |-> folder_name,
                      parent |-> parent_id]
       IN create_folder_structure_loop(
              [d EXCEPT !.folders = @ \cup {folder}],
              folder.id, Tail(path_parts), calls + 2, failAt)

\* create_folder_structure without the lookup before the create
RECURSIVE create_without_lookup(_, _, _)
create_without_lookup(d, parent_id, path_parts) ==
    IF path_parts = <<>>
    THEN [drive |-> d, value |-> parent_id, raised |-> FALSE]
    ELSE LET folder == [id |-> NewFolderId(d), name |-> Head(path_parts),
                        parent |-> parent_id]
         IN create_without_lookup([d EXCEPT !.folders = @ \cup {folder}],
                                  folder.id, Tail(path_parts))

create_folder_structure_always_creates(d, path_parts, failAt) ==
    create_without_lookup(d, root_folder_id, path_parts)

create_folder_structure(d, path_parts, failAt) ==
    create_folder_structure_loop(d, root_folder_id, path_parts, 0, failAt)

\* GoogleDriveManager.upload_image: the created file, or None
upload_image(d, image_bytes, filename, folder_id, fails) ==
    IF fails
    THEN [drive |-> d, value |-> None]
    ELSE
    LET file == [id |-> NewFileId(d), name |-> filename,
                 parent |-> folder_id, bytes |-> image_bytes]
    IN [drive |-> [d EXCEPT !.files = @ \cup {file}], value |-> Some(file)]

\* count_files_in_folder without the parent in its query
count_all_files(d, folder_id, fails) ==
    IF fails THEN 0 ELSE Cardinality(d.files)

\* GoogleDriveManager.count_files_in_folder
count_files_in_folder(d, folder_id, fails) ==
    IF fails THEN 0
    ELSE Cardinality({f \in d.files : f.parent = folder_id})

\* the order of characters (ASCII; an opaque character by its first one)
Alphabet ==
    <<" ", ".", ".png", "0", "1", "2", "3", "4", "5", "6", "7", "8", "9",
      "12-00", "_", "alice", "bob">>

Rank(c) == CHOOSE i \in 1..Len(Alphabet) : Alphabet[i] = c

RECURSIVE StrLess(_, _)
StrLess(a, b) ==
    IF b = <<>> THEN FALSE
    ELSE IF a = <<>> THEN TRUE
    ELSE IF Head(a) = Head(b) THEN StrLess(Tail(a), Tail(b))
    ELSE Rank(Head(a)) < Rank(Head(b))

\* orderBy='name'; files of one name come in creation order
NameBefore(f, g) ==
    \/ StrLess(f.name, g.name)
    \/ f.name = g.name /\ f.id <= g.id

RECURSIVE OrderByName(_)
OrderByName(S) ==
    IF S = {} THEN <<>>
    ELSE LET first == CHOOSE f \in S : \A g \in S : NameBefore(f, g)
         IN <<first>> \o OrderByName(S \ {first})

\* GoogleDriveManager.list_files_in_folder
list_files_in_folder(d, folder_id, fails) ==
    IF fails THEN <<>>
    ELSE OrderByName({f \in d.files : f.parent = folder_id})

\* GoogleDriveManager.download_file: the file's bytes, or None
download_file(d, file_id, fails) ==
    IF fails THEN None
    ELSE Some((CHOOSE f \in d.files : f.id = file_id).bytes)

-----------------------------------------------------------------------------
(* What a handler has computed when it suspends *)

NoUpdate == [kind |-> "none", text |-> <<>>, photo |-> "", args |-> <<>>]

NoRes ==
    [reply |-> "",          \* the message the handler is sending
     ret |-> None,          \* the conversation state the handler will return
     faults |-> {},         \* the adapter operations whose backend call failed
     new_number |-> 0,      \* handle_code's new_number
     requested |-> <<>>,    \* the files create_pdf asked download_file for
     images |-> <<>>]       \* create_pdf's images

\* a fault plan names the backend calls of one handler step that raise
\* HttpError: the cfs-th call of create_folder_structure (0: none), the
\* count query, the upload
PathLevels == <<"ders", "sinav", "konu", "alt_konu">>
CfsFaults == 0..(2 * Len(PathLevels))
NoFaults == [cfs |-> 0, count |-> FALSE, upload |-> FALSE]
CodeFaults == [cfs : CfsFaults, count : BOOLEAN, upload : BOOLEAN]

\* Filename with the count in place of new_number
FilenameFromCount(code, new_number, username, timestamp) ==
    code \o <<".">> \o IntStr(new_number - 1)
         \o <<"_", username, "_", timestamp, ".png">>

\* f"{code}.{new_number}_{username}_{timestamp}.png"
Filename(code, new_number, username, timestamp) ==
    code \o <<".">> \o IntStr(new_number)
         \o <<"_", username, "_", timestamp, ".png">>

\* SoruBankasiBot.handle_code up to its reply: the drive and the result,
\* raised when create_folder_structure's error leaves the handler, and
\* the part of the fault plan that came into play
handle_code(d, us, user_id, text, now, f) ==
    LET code == Strip(text)
    IN IF user_id \notin DOMAIN us
       THEN [drive |-> d, raised |-> FALSE, plan |-> NoFaults,
             res |-> [NoRes EXCEPT !.reply = "need_photo",
                                   !.ret = Some(END)]]
       ELSE
       LET parsed == parse_code(code)
       IN IF IsNone(parsed)
          THEN [drive |-> d, raised |-> FALSE, plan |-> NoFaults,
                res |-> [NoRes EXCEPT !.reply = "invalid_code",
                                      !.ret = Some(WAITING_FOR_CODE)]]
          ELSE
          LET made == create_folder_structure(d, Val(parsed).folder_path,
                                              f.cfs)
          IN IF made.raised
             THEN [drive |-> made.drive, raised |-> TRUE,
                   plan |-> [NoFaults EXCEPT !.cfs = f.cfs],
                   res |-> [NoRes EXCEPT !.faults = {"cfs"}]]
             ELSE
             LET folder_id == made.value
                 file_count == count_files_in_folder(made.drive, folder_id,
                                                     f.count)
                 new_number == file_count + 1
                 filename == Filename(code, new_number, us[user_id].username,
                                      now)
                 up == upload_image(made.drive, us[user_id].photo, filename,
                                    folder_id, f.upload)
             IN [drive |-> up.drive, raised |-> FALSE,
                 plan |-> [f EXCEPT !.cfs = 0],
                 res |-> [NoRes EXCEPT
                            !.reply = IF IsNone(up.value) THEN "upload_error"
                                      ELSE "saved",
                            !.ret = Some(END),
                            !.faults = (IF f.count THEN {"count"} ELSE {})
                                \cup (IF f.upload THEN {"upload"} ELSE {}),
                            !.new_number = new_number]]

-----------------------------------------------------------------------------
(* The conversation: run()'s ConversationHandler starts a conversation on  *)
(* a photo, hands a text that is no command to handle_code while the code  *)
(* is awaited, and falls back to cancel on /cancel.  A user's next update  *)
(* is taken up when the handler of the previous one has returned.          *)

Init ==
    /\ drive = EmptyDrive
    /\ user_states = <<>>
    /\ conv = [u \in Users |-> END]
    /\ pc = [u \in Users |-> "none"]
    /\ cur = [u \in Users |-> NoUpdate]
    /\ res = [u \in Users |-> NoRes]

Remove(us, u) == [v \in DOMAIN us \ {u} |-> us[v]]

\* handle_photo, entered: the photo is being fetched
HandlePhoto(u, photo) ==
    /\ pc[u] = "none"
    /\ conv[u] = END
    /\ pc' = [pc EXCEPT ![u] = "photo_fetch"]
    /\ cur' = [cur EXCEPT ![u] = [NoUpdate EXCEPT !.kind = "photo",
                                                  !.photo = photo]]
    /\ UNCHANGED <<drive, user_states, conv, res>>

\* HandlePhotoStore that replaces the map instead of setting one entry
HandlePhotoStoreResetsMap(u, now) ==
    /\ pc[u] = "photo_fetch"
    /\ user_states' = (u :> [photo |-> cur[u].photo,
                             username |-> username_of(u),
                             timestamp |-> now])
    /\ res' = [res EXCEPT ![u] = [NoRes EXCEPT !.reply = "photo_received",
                                               !.ret = Some(WAITING_FOR_CODE)]]
    /\ pc' = [pc EXCEPT ![u] = "photo_reply"]
    /\ UNCHANGED <<drive, conv, cur>>

\* handle_photo: the Pending Submission is recorded and the prompt sent
HandlePhotoStore(u, now) ==
    /\ pc[u] = "photo_fetch"
    /\ user_states' = (u :> [photo |-> cur[u].photo,
                             username |-> username_of(u),
                             timestamp |-> now]) @@ user_states
    /\ res' = [res EXCEPT ![u] = [NoRes EXCEPT !.reply = "photo_received",
                                               !.ret = Some(WAITING_FOR_CODE)]]
    /\ pc' = [pc EXCEPT ![u] = "photo_reply"]
    /\ UNCHANGED <<drive, conv, cur>>

\* handle_code, from the text to the reply, under a fault plan of plans
HandleCodeUnder(u, text, now, plans, maxFiles) ==
    /\ pc[u] = "none"
    /\ conv[u] = WAITING_FOR_CODE
    /\ \E f \in plans :
       \E out \in {handle_code(drive, user_states, u, text, now, f)} :
          /\ out.plan = f
          /\ Cardinality(out.drive.files) <= maxFiles
          /\ drive' = out.drive
          /\ res' = [res EXCEPT ![u] = out.res]
          /\ pc' = [pc EXCEPT ![u] = IF out.raised THEN "raised"
                                     ELSE "code_reply"]
    /\ cur' = [cur EXCEPT ![u] = [NoUpdate EXCEPT !.kind = "text",
                                                  !.text = text]]
    /\ UNCHANGED <<user_states, conv>>

\* HandleCodeReturn with the delete on every path
HandleCodeReturnAlwaysDeletes(u) ==
    /\ pc[u] = "code_reply"
    /\ user_states' = Remove(user_states, u)
    /\ conv' = [conv EXCEPT ![u] = Val(res[u].ret)]
    /\ pc' = [pc EXCEPT ![u] = "none"]
    /\ cur' = [cur EXCEPT ![u] = NoUpdate]
    /\ res' = [res EXCEPT ![u] = NoRes]
    /\ UNCHANGED drive

\* handle_code after its reply: the Pending Submission is deleted when the
\* code was accepted, and the handler returns
HandleCodeReturn(u) ==
    /\ pc[u] = "code_reply"
    /\ user_states' = IF res[u].reply \in {"saved", "upload_error"}
                      THEN Remove(user_states, u)
                      ELSE user_states
    /\ conv' = [conv EXCEPT ![u] = Val(res[u].ret)]
    /\ pc' = [pc EXCEPT ![u] = "none"]
    /\ cur' = [cur EXCEPT ![u] = NoUpdate]
    /\ res' = [res EXCEPT ![u] = NoRes]
    /\ UNCHANGED drive

\* an error no handler catches ends the handler; the conversation keeps
\* its state
HandlerRaised(u) ==
    /\ pc[u] = "raised"
    /\ pc' = [pc EXCEPT ![u] = "none"]
    /\ cur' = [cur EXCEPT ![u] = NoUpdate]
    /\ res' = [res EXCEPT ![u] = NoRes]
    /\ UNCHANGED <<drive, user_states, conv>>

\* Cancel without the delete
CancelKeepsPending(u) ==
    /\ pc[u] = "none"
    /\ conv[u] = WAITING_FOR_CODE
    /\ res' = [res EXCEPT ![u] = [NoRes EXCEPT !.reply = "cancelled",
                                               !.ret = Some(END)]]
    /\ pc' = [pc EXCEPT ![u] = "cancel_reply"]
    /\ cur' = [cur EXCEPT ![u] = [NoUpdate EXCEPT !.kind = "cancel"]]
    /\ UNCHANGED <<drive, user_states, conv>>

\* cancel, up to its reply
Cancel(u) ==
    /\ pc[u] = "none"
    /\ conv[u] = WAITING_FOR_CODE
    /\ user_states' = IF u \in DOMAIN user_states
                      THEN Remove(user_states, u)
                      ELSE user_states
    /\ res' = [res EXCEPT ![u] = [NoRes EXCEPT !.reply = "cancelled",
                                               !.ret = Some(END)]]
    /\ pc' = [pc EXCEPT ![u] = "cancel_reply"]
    /\ cur' = [cur EXCEPT ![u] = [NoUpdate EXCEPT !.kind = "cancel"]]
    /\ UNCHANGED <<drive, conv>>

\* handle_photo and cancel return the conversation's next state
ConversationReturn(u) ==
    /\ pc[u] \in {"photo_reply", "cancel_reply"}
    /\ conv' = [conv EXCEPT ![u] = Val(res[u].ret)]
    /\ pc' = [pc EXCEPT ![u] = "none"]
    /\ cur' = [cur EXCEPT ![u] = NoUpdate]
    /\ res' = [res EXCEPT ![u] = NoRes]
    /\ UNCHANGED <<drive, user_states>>

\* an update that no handler of run() takes: /cancel or a text outside a
\* conversation, a photo while the code is awaited
Unhandled(u, kind, photo) ==
    /\ pc[u] = "none"
    /\ \/ kind \in {"cancel", "text"} /\ conv[u] = END
       \/ kind = "photo" /\ conv[u] = WAITING_FOR_CODE
    /\ pc' = [pc EXCEPT ![u] = "unhandled"]
    /\ cur' = [cur EXCEPT ![u] =
                  [NoUpdate EXCEPT !.kind = kind,
                                   !.photo = IF kind = "photo" THEN photo
                                             ELSE ""]]
    /\ UNCHANGED <<drive, user_states, conv, res>>

Dropped(u) ==
    /\ pc[u] = "unhandled"
    /\ pc' = [pc EXCEPT ![u] = "none"]
    /\ cur' = [cur EXCEPT ![u] = NoUpdate]
    /\ UNCHANGED <<drive, user_states, conv, res>>

Next ==
    \/ \E u \in Users, photo \in Photos : HandlePhoto(u, photo)
    \/ \E u \in Users, now \in Times : HandlePhotoStore(u, now)
    \/ \E u \in Users, text \in Texts, now \in Times :
            HandleCodeUnder(u, text, now, CodeFaults, MaxFiles)
    \/ \E u \in Users : HandleCodeReturn(u)
    \/ \E u \in Users : HandlerRaised(u)
    \/ \E u \in Users : Cancel(u)
    \/ \E u \in Users : ConversationReturn(u)
    \/ \E u \in Users, kind \in {"cancel", "text", "photo"}, photo \in Photos :
            Unhandled(u, kind, photo)
    \/ \E u \in Users : Dropped(u)

Spec == Init /\ [][Next]_vars

\* the same program while every backend call succeeds
NextOk ==
    \/ \E u \in Users, photo \in Photos : HandlePhoto(u, photo)
    \/ \E u \in Users, now \in Times : HandlePhotoStore(u, now)
    \/ \E u \in Users, text \in Texts, now \in Times :
            HandleCodeUnder(u, text, now, {NoFaults}, MaxSeqFiles)
    \/ \E u \in Users : HandleCodeReturn(u)
    \/ \E u \in Users : Cancel(u)
    \/ \E u \in Users : ConversationReturn(u)
    \/ \E u \in Users, kind \in {"cancel", "text", "photo"}, photo \in Photos :
            Unhandled(u, kind, photo)
    \/ \E u \in Users : Dropped(u)

SpecOk == Init /\ [][NextOk]_vars

\* the same program, no backend call failing, with users who send
\* different photos
SentPhotos == {"p1", "p2"}

NextPhotos ==
    \/ \E u \in Users, photo \in SentPhotos : HandlePhoto(u, photo)
    \/ \E u \in Users, now \in Times : HandlePhotoStore(u, now)
    \/ \E u \in Users, text \in Texts, now \in Times :
            HandleCodeUnder(u, text, now, {NoFaults}, MaxPhotoFiles)
    \/ \E u \in Users : HandleCodeReturn(u)
    \/ \E u \in Users : Cancel(u)
    \/ \E u \in Users : ConversationReturn(u)
    \/ \E u \in Users, kind \in {"cancel", "text", "photo"},
          photo \in SentPhotos : Unhandled(u, kind, photo)
    \/ \E u \in Users : Dropped(u)

SpecPhotos == Init /\ [][NextPhotos]_vars

-----------------------------------------------------------------------------
(* Retrieval: list_questions and create_pdf *)

\* arguments of /list and /pdf: a topic's code, the code with a question
\* number, the code with an empty one
ArgCodes == {CodeTurev, CodeTurev \o <<".", "2">>, CodeTurev \o <<".">>}

RECURSIVE SeqsUpTo(_, _)
SeqsUpTo(S, n) ==
    IF n = 0 THEN {<<>>}
    ELSE LET shorter == SeqsUpTo(S, n - 1)
         IN shorter \cup {Append(q, x) : q \in shorter, x \in S}

ArgLists == SeqsUpTo(ArgCodes, MaxArgs)

\* a retrieval fault plan: call cfs of argument cfsArg's
\* create_folder_structure, the listings of the arguments in list, and the
\* downloads of the files in download raise HttpError
NoPdfFaults == [cfsArg |-> 0, cfs |-> 0, list |-> {}, download |-> {}]

\* the plans in which the arguments in listing reach the backend and the
\* files in requested are asked for
RetrievalFaults(listing, requested) ==
    {[NoPdfFaults EXCEPT !.cfsArg = i, !.cfs = k] :
        i \in listing, k \in CfsFaults \ {0}}
    \cup [cfsArg : {0}, cfs : {0}, list : SUBSET listing,
          download : SUBSET requested]

\* SoruBankasiBot.list_questions up to its reply
list_questions(d, args, f) ==
    IF args = <<>>
    THEN [drive |-> d, raised |-> FALSE, plan |-> NoPdfFaults,
          res |-> [NoRes EXCEPT !.reply = "usage"]]
    ELSE
    LET code == args[1]
        parsed == parse_code(code)
    IN IF IsNone(parsed)
       THEN [drive |-> d, raised |-> FALSE, plan |-> NoPdfFaults,
             res |-> [NoRes EXCEPT !.reply = "invalid_code"]]
       ELSE
       LET made == create_folder_structure(
                       d, Val(parsed).folder_path,
                       IF f.cfsArg = 1 THEN f.cfs ELSE 0)
       IN IF made.raised
          THEN [drive |-> made.drive, raised |-> TRUE,
                plan |-> [NoPdfFaults EXCEPT !.cfsArg = 1, !.cfs = f.cfs],
                res |-> [NoRes EXCEPT !.faults = {"cfs"}]]
          ELSE
          LET files == list_files_in_folder(made.drive, made.value,
                                            1 \in f.list)
          IN [drive |-> made.drive, raised |-> FALSE,
              plan |-> [NoPdfFaults EXCEPT !.list = f.list \cap {1}],
              res |-> [NoRes EXCEPT
                         !.reply = IF files = <<>> THEN "no_questions"
                                   ELSE "listing",
                         !.faults = IF 1 \in f.list THEN {"list"} ELSE {},
                         !.requested = [k \in 1..Len(files) |-> files[k].id]]]

\* pdf_files without the question number's filter
RECURSIVE pdf_files_unfiltered(_, _, _, _, _, _)
pdf_files_unfiltered(d, files, base_code, question_num, f, acc) ==
    IF files = <<>> THEN acc
    ELSE
    LET file == Head(files)
        file_bytes == download_file(d, file.id, file.id \in f.download)
    IN pdf_files_unfiltered(
           d, Tail(files), base_code, question_num, f,
           [requested |-> Append(acc.requested, file.id),
            images |-> IF IsNone(file_bytes) THEN acc.images
                       ELSE Append(acc.images, Val(file_bytes))])

\* create_pdf's loop over the files of one listing: acc collects the
\* files asked for and the images opened
RECURSIVE pdf_files(_, _, _, _, _, _)
pdf_files(d, files, base_code, question_num, f, acc) ==
    IF files = <<>> THEN acc
    ELSE
    LET file == Head(files)
        wanted ==
            IF ~IsNone(question_num) /\ Val(question_num) # <<>>
            THEN Contains(file.name,
                          base_code \o <<".">> \o Val(question_num) \o <<"_">>)
            ELSE TRUE
        file_bytes == download_file(d, file.id, file.id \in f.download)
    IN pdf_files(d, Tail(files), base_code, question_num, f,
                 IF ~wanted THEN acc
                 ELSE [requested |-> Append(acc.requested, file.id),
                       images |-> IF IsNone(file_bytes) THEN acc.images
                                  ELSE Append(acc.images, Val(file_bytes))])

\* create_pdf's base_code
BaseCode(code) ==
    LET parts == RSplit1(code, ".")
    IN IF Len(parts) = 2 THEN parts[1] ELSE code

\* create_pdf's loop over its arguments, from argument i on
RECURSIVE pdf_args(_, _, _, _, _)
pdf_args(d, args, i, f, acc) ==
    IF i > Len(args)
    THEN [drive |-> d, raised |-> FALSE, acc |-> acc]
    ELSE
    LET code == args[i]
        parts == RSplit1(code, ".")
        base_code == BaseCode(code)
        question_num == IF Len(parts) = 2 THEN Some(parts[2]) ELSE None
        parsed == parse_code(base_code)
    IN IF IsNone(parsed)
       THEN pdf_args(d, args, i + 1, f, acc)
       ELSE
       Only({IF made.raised
             THEN [drive |-> made.drive, raised |-> TRUE,
                   acc |-> [acc EXCEPT !.cfsArg = i]]
             ELSE
             LET files == list_files_in_folder(made.drive, made.value,
                                               i \in f.list)
                 got == pdf_files(made.drive, files, base_code, question_num,
                                  f, [requested |-> acc.requested,
                                      images |-> acc.images])
             IN pdf_args(made.drive, args, i + 1, f,
                         [acc EXCEPT !.requested = got.requested,
                                     !.images = got.images,
                                     !.list = @ \cup (f.list \cap {i})]) :
             made \in {create_folder_structure(
                           d, Val(parsed).folder_path,
                           IF f.cfsArg = i THEN f.cfs ELSE 0)}})

Range(q) == {q[k] : k \in 1..Len(q)}

\* SoruBankasiBot.create_pdf from its images = [] to its reply
create_pdf(d, args, f) ==
    Only({LET failed == Range(out.acc.requested) \cap f.download
          IN IF out.raised
             THEN [drive |-> out.drive, raised |-> TRUE,
                   plan |-> [NoPdfFaults EXCEPT !.cfsArg = out.acc.cfsArg,
                                                !.cfs = f.cfs],
                   res |-> [NoRes EXCEPT !.faults = {"cfs"}]]
             ELSE [drive |-> out.drive, raised |-> FALSE,
                   plan |-> [NoPdfFaults EXCEPT !.list = out.acc.list,
                                                !.download = failed],
                   res |-> [NoRes EXCEPT
                              !.reply = IF out.acc.images = <<>>
                                        THEN "no_images" ELSE "document",
                              !.faults =
                                  (IF out.acc.list # {} THEN {"list"} ELSE {})
                                  \cup (IF failed # {} THEN {"download"}
                                        ELSE {}),
                              !.requested = out.acc.requested,
                              !.images = out.acc.images]] :
          out \in {pdf_args(d, args, 1, f,
                            [requested |-> <<>>, images |-> <<>>,
                             list |-> {}, cfsArg |-> 0])}})

ListFaults(args) ==
    RetrievalFaults({i \in {1} : /\ args # <<>>
                                 /\ ~IsNone(parse_code(args[1]))}, {})

PdfFaults(d, args) ==
    RetrievalFaults(
        {i \in 1..Len(args) : ~IsNone(parse_code(BaseCode(args[i])))},
        Range(create_pdf(d, args, NoPdfFaults).res.requested))

\* the dispatcher takes up one update at a time
Quiet == \A u \in Users : pc[u] = "none"

\* list_questions, from the command to the reply
ListQuestions(u, args) ==
    /\ Quiet
    /\ \E f \in ListFaults(args) :
       \E out \in {list_questions(drive, args, f)} :
          /\ out.plan = f
          /\ drive' = out.drive
          /\ res' = [res EXCEPT ![u] = out.res]
          /\ pc' = [pc EXCEPT ![u] = IF out.raised THEN "raised"
                                     ELSE "list_reply"]
    /\ cur' = [cur EXCEPT ![u] = [NoUpdate EXCEPT !.kind = "list",
                                                  !.args = args]]
    /\ UNCHANGED <<user_states, conv>>

\* create_pdf, from the command to its first reply
CreatePdf(u, args) ==
    /\ Quiet
    /\ cur' = [cur EXCEPT ![u] = [NoUpdate EXCEPT !.kind = "pdf",
                                                  !.args = args]]
    /\ IF args = <<>>
       THEN /\ res' = [res EXCEPT ![u] = [NoRes EXCEPT !.reply = "usage"]]
            /\ pc' = [pc EXCEPT ![u] = "pdf_reply"]
       ELSE /\ res' = [res EXCEPT ![u] = [NoRes EXCEPT !.reply = "building"]]
            /\ pc' = [pc EXCEPT ![u] = "pdf_build"]
    /\ UNCHANGED <<drive, user_states, conv>>

\* create_pdf, from its first reply to its last
CreatePdfBuild(u) ==
    /\ pc[u] = "pdf_build"
    /\ \E f \in PdfFaults(drive, cur[u].args) :
       \E out \in {create_pdf(drive, cur[u].args, f)} :
          /\ out.plan = f
          /\ drive' = out.drive
          /\ res' = [res EXCEPT ![u] = out.res]
          /\ pc' = [pc EXCEPT ![u] = IF out.raised THEN "raised"
                                     ELSE "pdf_reply"]
    /\ UNCHANGED <<user_states, conv, cur>>

\* list_questions and create_pdf return
CommandReturn(u) ==
    /\ pc[u] \in {"list_reply", "pdf_reply"}
    /\ pc' = [pc EXCEPT ![u] = "none"]
    /\ cur' = [cur EXCEPT ![u] = NoUpdate]
    /\ res' = [res EXCEPT ![u] = NoRes]
    /\ UNCHANGED <<drive, user_states, conv>>

\* the photo of the k-th stored question
StoredPhoto(k) == <<"p1", "p2", "p3", "p4", "p5", "p6">>[k]

\* the users take turns in storing
StoredUser(k) == IF k % 2 = 1 THEN "u1" ELSE "u2"

\* drive d after one more submission, of text, with no backend fault
DriveAfter(d, text) ==
    LET k == Cardinality(d.files) + 1
        u == StoredUser(k)
        now == CHOOSE t \in Times : TRUE
        pending == [photo |-> StoredPhoto(k), username |-> username_of(u),
                    timestamp |-> now]
    IN handle_code(d, (u :> pending), u, text, now, NoFaults).drive

\* the drives after at most n submissions to an empty drive
RECURSIVE DrivesAfter(_)
DrivesAfter(n) ==
    IF n = 0 THEN {EmptyDrive}
    ELSE UNION {{d} \cup {DriveAfter(d, text) :
                            text \in {CodeTurev, CodeZincir}} :
                d \in DrivesAfter(n - 1)}

StoredDrives == DrivesAfter(MaxStored)

InitRetrieval ==
    /\ drive \in StoredDrives
    /\ user_states = <<>>
    /\ conv = [u \in Users |-> END]
    /\ pc = [u \in Users |-> "none"]
    /\ cur = [u \in Users |-> NoUpdate]
    /\ res = [u \in Users |-> NoRes]

NextRetrieval ==
    \/ \E u \in Users, args \in ArgLists : ListQuestions(u, args)
    \/ \E u \in Users, args \in ArgLists : CreatePdf(u, args)
    \/ \E u \in Users : CreatePdfBuild(u)
    \/ \E u \in Users : CommandReturn(u)
    \/ \E u \in Users : HandlerRaised(u)

SpecRetrieval == InitRetrieval /\ [][NextRetrieval]_vars

-----------------------------------------------------------------------------
(* The operations on their own.  In the specifications of this section one *)
(* caller applies one operation: cur is the input of the call, res what    *)
(* the calls have returned so far, pc the caller's position; drive is the  *)
(* backend, and there are no conversations.                                *)

\* names of folders, and the paths a caller passes
FolderNames == {"Mat", "AYT", "Turev"}
FolderPaths == SeqsUpTo(FolderNames, MaxPath)

\* create_folder_structure, called twice with the same path_parts, no
\* backend call failing
InitFolders ==
    /\ drive = EmptyDrive
    /\ cur \in [path_parts : FolderPaths]
    /\ res = <<>>
    /\ pc = "first"
    /\ user_states = <<>>
    /\ conv = <<>>

CreateFolderStructure ==
    /\ pc \in {"first", "second"}
    /\ \E made \in {create_folder_structure(drive, cur.path_parts, 0)} :
          /\ drive' = made.drive
          /\ res' = Append(res, made.value)
    /\ pc' = IF pc = "first" THEN "second" ELSE "done"
    /\ UNCHANGED <<user_states, conv, cur>>

NextFolders == CreateFolderStructure

SpecFolders == InitFolders /\ [][NextFolders]_vars

\* the segments codes are made of: identifiers of the taxonomy, one that
\* names no node, and the empty segment
SegmentIds == {<<"1">>, <<"2">>, <<"9">>, <<>>}
CodeSegments == SeqsUpTo(SegmentIds, MaxSegments) \ {<<>>}

\* parse_code, called with the code that joins the segments segs
InitParse ==
    /\ cur \in {[segs |-> segs, code |-> Code(segs)] : segs \in CodeSegments}
    /\ res = None
    /\ pc = "call"
    /\ drive = EmptyDrive
    /\ user_states = <<>>
    /\ conv = <<>>

ParseCode ==
    /\ pc = "call"
    /\ res' = parse_code(cur.code)
    /\ pc' = "done"
    /\ UNCHANGED <<drive, user_states, conv, cur>>

NextParse == ParseCode

SpecParse == InitParse /\ [][NextParse]_vars

\* menu.  A text is a sequence of pieces [run, len]: the line break, of
\* length 1, or a run of len characters without a line break, which run
\* names.  A taxonomy that menu renders is a dict in the order of its
\* items: a sequence of nodes [id, ad, ...], ad a run.

MessageLimit == 4000

NL == [run |-> <<"\n">>, len |-> 1]

\* len(text)
RECURSIVE TextLen(_)
TextLen(text) ==
    IF text = <<>> THEN 0 ELSE Head(text).len + TextLen(Tail(text))

\* text.split('\n\n')
RECURSIVE SplitBlank(_, _)
SplitBlank(text, part) ==
    IF text = <<>> THEN <<part>>
    ELSE IF Len(text) >= 2 /\ text[1] = NL /\ text[2] = NL
    THEN <<part>> \o SplitBlank(SubSeq(text, 3, Len(text)), <<>>)
    ELSE SplitBlank(Tail(text), Append(part, Head(text)))

\* one line of the menu: fixed characters of the format, the code of the
\* node and its display name, and the line break
MenuLine(fixed, ids, ad) ==
    <<[run |-> Code(ids) \o <<" - ">> \o ad.run,
       len |-> fixed + (Len(Code(ids)) - (Len(ids) - 1)) + ad.len],
      NL>>

RECURSIVE menu_alt_konular(_, _)
menu_alt_konular(ids, alt_konular) ==
    IF alt_konular = <<>> THEN <<>>
    ELSE MenuLine(12, Append(ids, Head(alt_konular).id), Head(alt_konular).ad)
         \o menu_alt_konular(ids, Tail(alt_konular))

RECURSIVE menu_konular(_, _)
menu_konular(ids, konular) ==
    IF konular = <<>> THEN <<>>
    ELSE MenuLine(9, Append(ids, Head(konular).id), Head(konular).ad)
         \o menu_alt_konular(Append(ids, Head(konular).id),
                             AltKonular(Head(konular)))
         \o menu_konular(ids, Tail(konular))

RECURSIVE menu_sinavlar(_, _)
menu_sinavlar(ids, sinavlar) ==
    IF sinavlar = <<>> THEN <<>>
    ELSE MenuLine(6, Append(ids, Head(sinavlar).id), Head(sinavlar).ad)
         \o menu_konular(Append(ids, Head(sinavlar).id),
                         Head(sinavlar).konular)
         \o menu_sinavlar(ids, Tail(sinavlar))

RECURSIVE menu_dersler(_)
menu_dersler(dersler) ==
    IF dersler = <<>> THEN <<>>
    ELSE MenuLine(6, <<Head(dersler).id>>, Head(dersler).ad)
         \o menu_sinavlar(<<Head(dersler).id>>, Head(dersler).sinavlar)
         \o <<NL>>
         \o menu_dersler(Tail(dersler))

\* menu's menu_text
menu_text(config) ==
    <<[run |-> <<"DERS VE KONU YAPISI">>, len |-> 25], NL, NL>>
    \o menu_dersler(config.dersler)

\* menu_parts that starts the next message without the part at hand
RECURSIVE menu_parts_drops_part(_, _, _)
menu_parts_drops_part(parts, current_msg, sent) ==
    IF parts = <<>>
    THEN IF current_msg # <<>> THEN Append(sent, current_msg) ELSE sent
    ELSE IF TextLen(current_msg) + TextLen(Head(parts)) < MessageLimit
    THEN menu_parts_drops_part(Tail(parts),
                               current_msg \o Head(parts) \o <<NL, NL>>, sent)
    ELSE menu_parts_drops_part(Tail(parts), <<NL, NL>>,
                               Append(sent, current_msg))

\* menu's loop over the parts: the messages sent
RECURSIVE menu_parts(_, _, _)
menu_parts(parts, current_msg, sent) ==
    IF parts = <<>>
    THEN IF current_msg # <<>> THEN Append(sent, current_msg) ELSE sent
    ELSE IF TextLen(current_msg) + TextLen(Head(parts)) < MessageLimit
    THEN menu_parts(Tail(parts),
                    current_msg \o Head(parts) \o <<NL, NL>>, sent)
    ELSE menu_parts(Tail(parts), Head(parts) \o <<NL, NL>>,
                    Append(sent, current_msg))

\* SoruBankasiBot.menu: the messages it sends
menu(config) ==
    IF TextLen(menu_text(config)) > MessageLimit
    THEN menu_parts(SplitBlank(menu_text(config), <<>>), <<>>, <<>>)
    ELSE <<menu_text(config)>>

\* display names by their lengths
Name(n) == [run |-> <<"ad">> \o IntStr(n), len |-> n]
NameLens == {3, 1970, 3965, 3966, 4100}

\* an exam with a topic that has a subtopic and a topic without the
\* alt_konular key
OneExam ==
    <<[id |-> <<"1">>, ad |-> Name(3),
       konular |->
          <<[id |-> <<"1">>, ad |-> Name(3),
             alt_konular |-> <<[id |-> <<"1">>, ad |-> Name(3)]>>],
            [id |-> <<"2">>, ad |-> Name(3)]>>]>>

\* the taxonomies of n subjects
RECURSIVE Subjects(_)
Subjects(n) ==
    IF n = 0 THEN {<<>>}
    ELSE {Append(dersler, [id |-> IntStr(n), ad |-> Name(len),
                           sinavlar |-> sinavlar]) :
             dersler \in Subjects(n - 1), len \in NameLens,
             sinavlar \in {<<>>, OneExam}}

MenuConfigs == {[dersler |-> dersler] :
                   dersler \in UNION {Subjects(n) : n \in 0..MaxSubjects}}

InitMenu ==
    /\ cur \in [config : MenuConfigs]
    /\ res = <<>>
    /\ pc = "call"
    /\ drive = EmptyDrive
    /\ user_states = <<>>
    /\ conv = <<>>

Menu ==
    /\ pc = "call"
    /\ res' = menu(cur.config)
    /\ pc' = "done"
    /\ UNCHANGED <<drive, user_states, conv, cur>>

NextMenu == Menu

SpecMenu == InitMenu /\ [][NextMenu]_vars

-----------------------------------------------------------------------------
(* Vocabulary of the properties *)

DigitValue(c) == CHOOSE n \in 0..9 : Digit(n) = c

RECURSIVE StrInt(_)
StrInt(str) ==
    IF str = <<>> THEN 0
    ELSE 10 * StrInt(SubSeq(str, 1, Len(str) - 1)) + DigitValue(str[Len(str)])

\* the sequence number in a stored question's name: what stands between
\* the last "." and the first "_"
SeqOfName(name) ==
    LET stem == SubSeq(name, 1, Find(name, "_", 1) - 1)
        parts == Split(stem, ".")
    IN StrInt(parts[Len(parts)])

FilesIn(d, folder_id) == {file \in d.files : file.parent = folder_id}

\* the folder a path names on drive d, by lookup alone
RECURSIVE FolderAt(_, _, _)
FolderAt(d, parent_id, path_parts) ==
    IF path_parts = <<>> THEN Some(parent_id)
    ELSE LET found == {f \in d.folders : /\ f.name = Head(path_parts)
                                         /\ f.parent = parent_id}
         IN IF found = {} THEN None
            ELSE FolderAt(d, FirstFolder(found).id, Tail(path_parts))

Rejected(text) == IsNone(parse_code(Strip(text)))

\* a code each of whose segments names a node of the taxonomy
FullyResolved(code) ==
    /\ ~IsNone(parse_code(code))
    /\ Len(Split(code, ".")) = Len(Val(parse_code(code)).folder_path)

StartsWith(str, prefix) ==
    /\ Len(str) >= Len(prefix)
    /\ SubSeq(str, 1, Len(prefix)) = prefix

\* the folder of code holds three questions, stored under that code with
\* the sequence numbers 1, 2 and 3
HoldsOneTwoThree(d, code) ==
    LET at == FolderAt(d, root_folder_id, Val(parse_code(code)).folder_path)
    IN /\ ~IsNone(at)
       /\ Cardinality(FilesIn(d, Val(at))) = 3
       /\ \A n \in 1..3 : \E file \in FilesIn(d, Val(at)) :
             StartsWith(file.name, code \o <<".">> \o IntStr(n) \o <<"_">>)

\* two handle_code runs that overlap: each has stored its question and
\* neither has returned
Overlapping(u, v) ==
    /\ u # v
    /\ pc[u] = "code_reply" /\ res[u].reply = "saved"
    /\ pc[v] = "code_reply" /\ res[v].reply = "saved"
    /\ Strip(cur[u].text) = Strip(cur[v].text)

\* the taxonomy's topic that the first three of segs name, if they do
TopicAt(segs) ==
    IF Len(segs) < 3 THEN None
    ELSE IF segs[1] \notin DOMAIN CONFIG.dersler THEN None
    ELSE IF segs[2] \notin DOMAIN CONFIG.dersler[segs[1]].sinavlar THEN None
    ELSE IF segs[3] \notin
               DOMAIN CONFIG.dersler[segs[1]].sinavlar[segs[2]].konular
    THEN None
    ELSE Some(CONFIG.dersler[segs[1]].sinavlar[segs[2]].konular[segs[3]])

\* the display names of the subject, the exam and the topic segs name
TopicPath(segs) ==
    <<CONFIG.dersler[segs[1]].ad,
      CONFIG.dersler[segs[1]].sinavlar[segs[2]].ad,
      Val(TopicAt(segs)).ad>>

\* the display name of the subtopic the fourth of segs names, if it does
SubtopicAt(segs) ==
    IF /\ Len(segs) >= 4
       /\ "alt_konular" \in DOMAIN Val(TopicAt(segs))
       /\ segs[4] \in DOMAIN Val(TopicAt(segs)).alt_konular
    THEN Some(Val(TopicAt(segs)).alt_konular[segs[4]])
    ELSE None

\* the files /pdf is to take for args on drive d: for each argument in
\* turn whose base code parse_code accepts, the files of its folder in the
\* listing's order, those of the question number alone when one is given
RECURSIVE ExpectedFiles(_, _)
ExpectedFiles(d, args) ==
    IF args = <<>> THEN <<>>
    ELSE
    LET code == Head(args)
        dot == RFind(code, ".", Len(code))
        base == IF dot = 0 THEN code ELSE SubSeq(code, 1, dot - 1)
        num == IF dot = 0 THEN <<>> ELSE SubSeq(code, dot + 1, Len(code))
        at == IF IsNone(parse_code(base)) THEN None
              ELSE FolderAt(d, root_folder_id,
                            Val(parse_code(base)).folder_path)
        listed == IF IsNone(at) THEN <<>>
                  ELSE OrderByName(
                           {file \in FilesIn(d, Val(at)) :
                               \/ num = <<>>
                               \/ Contains(file.name,
                                           base \o <<".">> \o num \o <<"_">>)})
    IN listed \o ExpectedFiles(d, Tail(args))

\* sub is what is left of whole when some of its elements are taken out
RECURSIVE IsSubsequence(_, _)
IsSubsequence(sub, whole) ==
    IF sub = <<>> THEN TRUE
    ELSE IF whole = <<>> THEN FALSE
    ELSE IF Head(sub) = Head(whole)
    THEN IsSubsequence(Tail(sub), Tail(whole))
    ELSE IsSubsequence(sub, Tail(whole))

BytesOf(d, ids) ==
    [k \in 1..Len(ids) |-> (CHOOSE file \in d.files : file.id = ids[k]).bytes]

\* create_pdf's images are the downloads that succeeded, in the order of
\* the arguments and of each folder's listing
PagesInOrder(u) ==
    /\ "list" \notin res[u].faults
       => res[u].requested =
             [k \in 1..Len(ExpectedFiles(drive, cur[u].args)) |->
                 ExpectedFiles(drive, cur[u].args)[k].id]
    /\ IsSubsequence(res[u].images, BytesOf(drive, res[u].requested))
    /\ IF "download" \in res[u].faults
       THEN Len(res[u].images) < Len(res[u].requested)
       ELSE res[u].images = BytesOf(drive, res[u].requested)

\* the parts, each followed by a blank line
RECURSIVE Paragraphs(_)
Paragraphs(parts) ==
    IF parts = <<>> THEN <<>>
    ELSE Head(parts) \o <<NL, NL>> \o Paragraphs(Tail(parts))

\* the messages msgs are the paragraphs of parts, each message one or more
\* whole paragraphs, in the order of parts and each paragraph once
RECURSIVE WholeParagraphs(_, _)
WholeParagraphs(msgs, parts) ==
    IF msgs = <<>> THEN parts = <<>>
    ELSE \E n \in 1..Len(parts) :
            /\ Head(msgs) = Paragraphs(SubSeq(parts, 1, n))
            /\ WholeParagraphs(Tail(msgs), SubSeq(parts, n + 1, Len(parts)))

\* the folder paths of the codes that the retrieval command of update upd
\* resolves: /list's first argument, the base code of each of /pdf's
RetrievalPaths(upd) ==
    LET codes == IF upd.kind = "list"
                 THEN {upd.args[i] : i \in 1..Len(upd.args) \cap {1}}
                 ELSE {BaseCode(upd.args[i]) : i \in 1..Len(upd.args)}
    IN {Val(parse_code(code)).folder_path :
           code \in {c \in codes : ~IsNone(parse_code(c))}}

\* folder is new in drive e: it is the folder that a prefix of path names
\* in e, and that prefix named no folder in drive d
CreatedOnPath(d, e, folder, path) ==
    \E k \in 1..Len(path) :
        /\ FolderAt(e, root_folder_id, SubSeq(path, 1, k)) = Some(folder.id)
        /\ IsNone(FolderAt(d, root_folder_id, SubSeq(path, 1, k)))

-----------------------------------------------------------------------------
(* Properties *)

\* C1: a text that parse_code rejects, sent by a user with a Pending
\* Submission while the code is awaited, is answered with the invalid-code
\* message; handle_code returns WAITING_FOR_CODE, the Pending Submission
\* stays as it was, and the drive gets no folder and no file.
C1_RejectedCodeKeepsSubmission ==
    [][\A u \in Users :
        /\ ( /\ pc[u] = "none"
             /\ pc'[u] \in {"code_reply", "raised"}
             /\ u \in DOMAIN user_states
             /\ Rejected(cur'[u].text) )
           => /\ pc'[u] = "code_reply"
              /\ res'[u].reply = "invalid_code"
              /\ res'[u].ret = Some(WAITING_FOR_CODE)
              /\ user_states' = user_states
              /\ drive' = drive
        /\ ( /\ pc[u] = "code_reply"
             /\ pc'[u] = "none"
             /\ u \in DOMAIN user_states
             /\ Rejected(cur[u].text) )
           => /\ conv'[u] = WAITING_FOR_CODE
              /\ u \in DOMAIN user_states'
              /\ user_states'[u] = user_states[u]
              /\ drive' = drive
      ]_vars

C1_Witness ==
    \E u \in Users :
        /\ pc[u] = "code_reply"
        /\ cur[u].text = CodeBad
        /\ res[u].reply = "invalid_code"
        /\ u \in DOMAIN user_states
        /\ drive.files # {}

\* C2: when handle_code has handled a text that parse_code accepts, the
\* user's Pending Submission is deleted and the conversation is over,
\* whether the upload succeeded or a storage step failed.
C2_AcceptedCodeEndsConversation ==
    [][\A u \in Users :
        ( /\ cur[u].kind = "text"
          /\ ~Rejected(cur[u].text)
          /\ pc[u] \in {"code_reply", "raised"}
          /\ pc'[u] = "none" )
        => /\ u \notin DOMAIN user_states'
           /\ conv'[u] = END
      ]_vars

\* C3: while every backend call succeeds, the questions of a folder carry
\* the sequence numbers 1..N in the order of their upload: the k-th file
\* stored in a folder has number k.
C3_SequentialNumbers ==
    \A file \in drive.files :
        SeqOfName(file.name) =
            Cardinality({g \in FilesIn(drive, file.parent) : g.id <= file.id})

C3_Witness ==
    \E file \in drive.files :
        /\ SeqOfName(file.name) = 3
        /\ Cardinality(FilesIn(drive, file.parent)) = 3

C5_PdfOfCodeTakesAll ==
    \A u \in Users :
        ( /\ pc[u] = "pdf_reply"
          /\ Len(cur[u].args) = 1
          /\ res[u].faults = {}
          /\ FullyResolved(cur[u].args[1])
          /\ HoldsOneTwoThree(drive, cur[u].args[1]) )
        => LET code == cur[u].args[1]
               at == FolderAt(drive, root_folder_id,
                              Val(parse_code(code)).folder_path)
               files == list_files_in_folder(drive, Val(at), FALSE)
           IN /\ res[u].requested = [k \in 1..3 |-> files[k].id]
              /\ res[u].images = [k \in 1..3 |-> files[k].bytes]
              /\ res[u].reply = "document"

\* C6: /pdf with the one argument code.2, code fully resolved, against a
\* folder of that code holding the questions 1, 2 and 3 stored under it,
\* asks for one file, the one whose name contains code.2_, and for no
\* other file of any folder; the document is that image.
C6_PdfOfNumberTakesThatFile ==
    \A u \in Users :
        ( /\ pc[u] = "pdf_reply"
          /\ Len(cur[u].args) = 1
          /\ res[u].faults = {}
          /\ Len(RSplit1(cur[u].args[1], ".")) = 2
          /\ RSplit1(cur[u].args[1], ".")[2] = <<"2">>
          /\ FullyResolved(RSplit1(cur[u].args[1], ".")[1])
          /\ HoldsOneTwoThree(drive, RSplit1(cur[u].args[1], ".")[1]) )
        => \E file \in drive.files :
              /\ Contains(file.name, cur[u].args[1] \o <<"_">>)
              /\ \A g \in drive.files :
                    Contains(g.name, cur[u].args[1] \o <<"_">>)
                    /\ g.parent = file.parent => g = file
              /\ res[u].requested = <<file.id>>
              /\ res[u].images = <<file.bytes>>
              /\ res[u].reply = "document"

C6_Witness ==
    \E u \in Users :
        /\ pc[u] = "pdf_reply"
        /\ cur[u].args = <<CodeTurev \o <<".", "2">> >>
        /\ res[u].faults = {}
        /\ HoldsOneTwoThree(drive, CodeTurev)
        /\ Len(res[u].requested) = 1
        /\ Cardinality(drive.files) = 4

C9_NoErrorLeavesAdapter ==
    \A u \in Users : pc[u] # "raised"

\* C10: a command during which a backend call failed reports a failure:
\* it reports neither success nor an empty folder, and sends no listing
\* and no document.
C10_FailureIsReported ==
    \A u \in Users :
        res[u].faults # {}
        => res[u].reply \notin {"saved", "no_questions", "listing", "document"}

\* C11: a handler step taken for one user leaves every other user's
\* Pending Submission and conversation state as they were, however the
\* turns of the users interleave.
C11_OtherUsersUntouched ==
    [][\A u \in Users : \A v \in Users \ {u} :
        pc'[u] # pc[u]
        => /\ conv'[v] = conv[v]
           /\ (v \in DOMAIN user_states') = (v \in DOMAIN user_states)
           /\ v \in DOMAIN user_states => user_states'[v] = user_states[v]
      ]_vars

\* one user's photo is recorded while the other awaits the code with a
\* Pending Submission of their own
C11_Witness ==
    \E u \in Users : \E v \in Users \ {u} :
        /\ pc[u] = "photo_reply"
        /\ u \in DOMAIN user_states
        /\ v \in DOMAIN user_states
        /\ conv[v] = WAITING_FOR_CODE

\* C12: create_folder_structure called twice in a row with the same path
\* against an initially empty backend returns the same folder identifier
\* both times, and the second call creates no folder.
C12_SecondCallFindsFolders ==
    [][pc = "second" /\ pc' = "done"
       => /\ drive' = drive
          /\ Len(res') = 2
          /\ res'[2] = res'[1]
      ]_vars

\* both calls are made for a path of four names, two of them equal
C12_Witness ==
    /\ pc = "done"
    /\ Len(cur.path_parts) = 4
    /\ cur.path_parts[1] = cur.path_parts[2]
    /\ Cardinality(drive.folders) = 4
    /\ res[1] = 4

\* C13: parse_code returns None for a code of fewer than three segments
\* and for a code whose first, second or third segment does not name a
\* subject, an exam of that subject, a topic of that exam, whatever its
\* other segments are; it returns a result for every other code.
C13_RejectsUnlessTopicResolves ==
    pc = "done" => (IsNone(res) <=> IsNone(TopicAt(cur.segs)))

\* a code is rejected for its third segment although its other segments
\* name nodes
C13_Witness ==
    /\ pc = "done"
    /\ cur.segs = << <<"1">>, <<"1">>, <<"9">>, <<"1">>, <<"1">> >>
    /\ IsNone(res)

\* C14: a result of parse_code has the four display names subject, exam,
\* topic, subtopic as its folder path and the subtopic's display name as
\* its subtopic when the code has a fourth segment that names a subtopic of
\* the topic; otherwise it has no subtopic and the folder path is the three
\* display names subject, exam, topic.
C14_FolderPathFollowsSubtopic ==
    pc = "done" /\ ~IsNone(res)
    => IF ~IsNone(SubtopicAt(cur.segs))
       THEN /\ Val(res).alt_konu = SubtopicAt(cur.segs)
            /\ Val(res).folder_path =
                  Append(TopicPath(cur.segs), Val(SubtopicAt(cur.segs)))
            /\ Len(Val(res).folder_path) = 4
       ELSE /\ Val(res).alt_konu = None
            /\ Val(res).folder_path = TopicPath(cur.segs)
            /\ Len(Val(res).folder_path) = 3

\* a code whose fourth segment names a subtopic is parsed
C14_Witness ==
    /\ pc = "done"
    /\ cur.segs = << <<"1">>, <<"1">>, <<"1">>, <<"1">> >>
    /\ ~IsNone(res)
    /\ Val(res).alt_konu = Some("Zincir")

\* C15: a code that parse_code accepts has three or four segments.
C15_AcceptedCodeHasThreeOrFourSegments ==
    pc = "done" /\ ~IsNone(res) => Len(cur.segs) \in 3..4

\* C16: /pdf with arguments ends in a reply: the pages of the document
\* are the images whose download succeeded, in the order of the arguments
\* and, within an argument, of the folder's listing; an argument whose base
\* code is invalid adds nothing; the document is sent when there is at
\* least one image, and otherwise the no-images message and no document.
C16_PdfPagesInOrder ==
    \A u \in Users :
        cur[u].kind = "pdf" /\ cur[u].args # <<>>
        /\ pc[u] \in {"pdf_reply", "raised"}
        => /\ pc[u] = "pdf_reply"
           /\ PagesInOrder(u)
           /\ res[u].reply = IF res[u].images = <<>> THEN "no_images"
                             ELSE "document"

\* C17: when the rendered menu text is longer than the message limit, menu
\* sends at least two messages, and each message is made of whole
\* paragraphs of the text (its parts between blank lines), the paragraphs
\* being sent in their order, none left out and none sent twice.
C17_MenuSendsWholeParagraphs ==
    pc = "done" /\ TextLen(menu_text(cur.config)) > MessageLimit
    => /\ Len(res) >= 2
       /\ WholeParagraphs(res, SplitBlank(menu_text(cur.config), <<>>))

\* a menu of three messages, one of them a single paragraph longer than
\* the limit
C17_Witness ==
    /\ pc = "done"
    /\ Len(res) = 3
    /\ \E k \in 1..3 : TextLen(res[k]) > MessageLimit
    /\ \E k \in 1..3 : Len(SplitBlank(res[k], <<>>)) > 2

\* C18: at all times a user has a Pending Submission exactly when that
\* user's conversation awaits the code, and handle_code never runs for a
\* user without a Pending Submission.
C18_PendingIffAwaitingCode ==
    \A u \in Users :
        /\ (u \in DOMAIN user_states) <=> (conv[u] = WAITING_FOR_CODE)
        /\ res[u].reply # "need_photo"

\* C19: every photo a user sends becomes that user's Pending Submission,
\* so that the next accepted code stores the photo sent last; the file
\* stored for an accepted code holds the photo of the Pending Submission,
\* and the Pending Submission is gone once it is stored, so that no photo
\* is stored twice.
C19_LastPhotoIsStoredOnce ==
    [][\A u \in Users :
        /\ ( /\ cur[u].kind = "photo"
             /\ pc[u] # "none"
             /\ pc'[u] = "none" )
           => /\ u \in DOMAIN user_states'
              /\ user_states'[u].photo = cur[u].photo
        /\ ( /\ pc[u] = "none"
             /\ pc'[u] = "code_reply"
             /\ res'[u].reply = "saved" )
           => \E file \in drive'.files \ drive.files :
                 file.bytes = user_states[u].photo
        /\ ( /\ pc[u] = "code_reply"
             /\ res[u].reply = "saved"
             /\ pc'[u] = "none" )
           => u \notin DOMAIN user_states'
      ]_vars

\* C20: /list and /pdf create and delete no file, delete no folder and
\* leave user_states as it was; the folders they create are the missing
\* folders of the paths that their valid codes name, and none when the
\* paths exist.
C20_RetrievalOnlyCreatesMissingFolders ==
    [][\A u \in Users :
        pc'[u] # pc[u]
        => /\ drive'.files = drive.files
           /\ drive.folders \subseteq drive'.folders
           /\ user_states' = user_states
           /\ \A folder \in drive'.folders \ drive.folders :
                 \E path \in RetrievalPaths(cur'[u]) :
                    CreatedOnPath(drive, drive', folder, path)
      ]_vars

\* /list has answered for a code on a drive without files: the folders of
\* the code's path are there
C20_Witness ==
    \E u \in Users :
        /\ pc[u] = "list_reply"
        /\ cur[u].args = <<CodeTurev>>
        /\ drive.files = {}
        /\ Cardinality(drive.folders) = 3

\* C20 as stated: /list and /pdf leave the backend's folders and files
\* and user_states unchanged.
C20_RetrievalIsReadOnly ==
    [][drive' = drive /\ user_states' = user_states]_vars

====
